---- MODULE Spec2Model ----
(***************************************************************************)
(* Vectorization-width resolution of a fusion group                        *)
(* (crates/burn-cubecl-fusion/src/shared/trace/vectorization/base.rs).     *)
(*                                                                         *)
(* The specifications share the variables below:                           *)
(*   SpecMerge    the conflict merger applied to arbitrary proposals;       *)
(*   SpecResolve  the four per-category resolvers applied to bounded        *)
(*                inputs;                                                   *)
(*   SpecDefault  the orchestrator vectorization_default run over a         *)
(*                bounded fusion plan.                                      *)
(*   SpecRerun    vectorization_default run twice with the same arguments;  *)
(*   SpecOverrides the LineSizeOverrides table built call by call and        *)
(*                remapped through a context.                               *)
(***************************************************************************)
EXTENDS Integers, Sequences, FiniteSets, TLC

VARIABLES
    vectorizations, \* BTreeMap<TensorId, Vect>: a function on the keys present
    proposals,      \* history: per identity, the proposals merged so far
    call,           \* the resolver call last made (its arguments)
    result,         \* what that call returned
    plan,           \* the arguments of the running vectorization_default
    pc,             \* its position: <<loop, index of the item to process>>
    table,          \* the LineSizeOverrides being built
    calls           \* history: the overrides / overrides_default calls made on it

vars == <<vectorizations, proposals, call, result, plan, pc, table, calls>>

----------------------------------------------------------------------------
(* Bounds *)

\* Longest sequence of proposals merged into one identity.
MaxProposals == 3

\* Tensor identities.
TensorIds == {0, 1, 2}

\* The identities that receive proposals in SpecMerge.
MergeIds == {0, 1}

\* Line sizes that candidate lists and proposals are built from.
Widths == {1, 2, 4}

\* Longest override candidate list.
MaxCands == 2

\* Most swap pairs of a fusion plan.
MaxSwapped == 2

\* Axis extents: empty, broadcast, divisible by 2 only, odd, divisible by 4.
Extents == {0, 1, 2, 15, 16}

\* Tensor ranks.
Ranks == {1, 2}

\* Strides of a handle: contiguous (1) or not.
StrideVals == {1, 8, 16}

\* The caller-supplied maximum line size.
Maxes == {1, 2, 4}

\* R::line_size_elem(ref_elem): the backend's candidate list for the element
\* type, largest first.
NativeLists == {<<4, 2, 1>>, <<4, 2>>}

----------------------------------------------------------------------------
(* Option<T>: None is the empty sequence, Some(x) the one-element sequence *)

None == <<>>

Some(x) == <<x>>

----------------------------------------------------------------------------
(* enum Vect { Broadcasted, Aligned(u8) } *)

Broadcasted == <<"Broadcasted">>

Aligned(val) == <<"Aligned", val>>

is_broadcast(v) == v[1] = "Broadcasted"

IsAligned(v) == v[1] = "Aligned"

line_size(v) == IF v[1] = "Broadcasted" THEN 1 ELSE v[2]

Vects == {Broadcasted} \cup {Aligned(w) : w \in Widths}

----------------------------------------------------------------------------
(* BTreeMap operations *)

EmptyMap == [k \in {} |-> None]

MapInsert(m, k, v) == [x \in (DOMAIN m) \cup {k} |-> IF x = k THEN v ELSE m[x]]

MapGet(m, k) == IF k \in DOMAIN m THEN Some(m[k]) ELSE None

----------------------------------------------------------------------------
(* fn multi_reads_vectorization_update(vectorizations, original, vect) *)

\* Faulty variant: a Broadcasted entry is not kept but downgraded like an
\* Aligned one.
multi_reads_vectorization_update_no_keep(m, original, vect) ==
    IF MapGet(m, original) # None
    THEN IF vect[1] = "Aligned" /\ m[original] = vect
         THEN m
         ELSE MapInsert(m, original, Aligned(1))
    ELSE MapInsert(m, original, vect)

\* Faulty variant: mismatched widths keep the entry's width instead of 1.
multi_reads_vectorization_update_keep_ori(m, original, vect) ==
    IF MapGet(m, original) # None
    THEN LET ori_vect == m[original] IN
         IF ori_vect[1] = "Broadcasted"
         THEN m
         ELSE IF vect[1] = "Broadcasted"
              THEN MapInsert(m, original, Aligned(1))
              ELSE m
    ELSE MapInsert(m, original, vect)

\* Faulty variant: mismatched widths take the proposal's width instead of 1.
multi_reads_vectorization_update_take_new(m, original, vect) ==
    IF MapGet(m, original) # None
    THEN LET ori_vect == m[original] IN
         IF ori_vect[1] = "Broadcasted"
         THEN m
         ELSE IF vect[1] = "Broadcasted"
              THEN MapInsert(m, original, Aligned(1))
              ELSE MapInsert(m, original, vect)
    ELSE MapInsert(m, original, vect)

\* Faulty variant: the width comparison is inverted, so equal widths give 1.
multi_reads_vectorization_update_inverted(m, original, vect) ==
    IF MapGet(m, original) # None
    THEN LET ori_vect == m[original] IN
         IF ori_vect[1] = "Broadcasted"
         THEN m
         ELSE LET ori == ori_vect[2] IN
              IF vect[1] = "Broadcasted"
              THEN MapInsert(m, original, Aligned(1))
              ELSE LET new == vect[2]
                       val == IF new = ori THEN 1 ELSE new
                   IN MapInsert(m, original, Aligned(val))
    ELSE MapInsert(m, original, vect)

multi_reads_vectorization_update(m, original, vect) ==
    IF MapGet(m, original) # None
    THEN LET ori_vect == m[original] IN
         IF ori_vect[1] = "Broadcasted"
         THEN m  \* keep the original as is.
         ELSE LET ori == ori_vect[2] IN
              IF vect[1] = "Broadcasted"
              THEN MapInsert(m, original, Aligned(1))
              ELSE LET new == vect[2]
                       val == IF new # ori THEN 1 ELSE new
                   IN MapInsert(m, original, Aligned(val))
    ELSE MapInsert(m, original, vect)

----------------------------------------------------------------------------
(* Resolvers.  A resolver returns a Vect, or Panic when the Rust code aborts *)
(* (index out of bounds, usize underflow of len() - 1).                     *)

Panic == <<"Panic">>

Min(S) == CHOOSE x \in S : \A y \in S : x <= y

\* The members of a candidate list.
Members(list) == {list[i] : i \in 1..Len(list)}

\* for s in list { if let Some(val) = inner(s) { return val; } } Vect::Aligned(1)
\* where `some` holds the candidates s for which inner(s) is Some(Aligned(s)).
Scan(list, some) ==
    LET hits == {i \in 1..Len(list) : list[i] \in some}
    IN IF hits = {} THEN Aligned(1) ELSE Aligned(list[Min(hits)])

\* match overrides { Some(vals) => vals, None => R::line_size_elem(ref_elem) }
ListInUse(native, overrides) ==
    IF overrides # None THEN overrides[1] ELSE native

\* Faulty variant: the stride is checked before the extent, so a size-1 axis
\* with a stride other than 1 is Aligned(1).
vectorization_input_stride_first(handle, desc, axis, native, overrides) ==
    IF axis = None /\ Len(handle.strides) = 0 THEN Panic
    ELSE LET ax == IF axis = None THEN Len(handle.strides) - 1 ELSE axis[1] IN
    IF ax >= Len(desc.shape) THEN Panic
    ELSE LET shape_axis == desc.shape[ax + 1] IN
    IF ax >= Len(handle.strides) THEN Panic
    ELSE IF handle.strides[ax + 1] # 1 THEN Aligned(1)
    ELSE IF shape_axis = 1 THEN Broadcasted
    ELSE LET list == ListInUse(native, overrides)
             inner(s) == shape_axis % s = 0
         IN Scan(list, {s \in Members(list) : inner(s)})

\* Faulty variant: the stride is not checked at all.
vectorization_input_no_stride(handle, desc, axis, native, overrides) ==
    IF axis = None /\ Len(handle.strides) = 0 THEN Panic
    ELSE LET ax == IF axis = None THEN Len(handle.strides) - 1 ELSE axis[1] IN
    IF ax >= Len(desc.shape) THEN Panic
    ELSE LET shape_axis == desc.shape[ax + 1] IN
    IF shape_axis = 1 THEN Broadcasted
    ELSE IF ax >= Len(handle.strides) THEN Panic
    ELSE LET list == ListInUse(native, overrides)
             inner(s) == shape_axis % s = 0
         IN Scan(list, {s \in Members(list) : inner(s)})

\* Faulty variant: an axis past the end of the shape is answered with
\* Aligned(1) instead of aborting.
vectorization_input_oob_aligned(handle, desc, axis, native, overrides) ==
    IF axis = None /\ Len(handle.strides) = 0 THEN Panic
    ELSE LET ax == IF axis = None THEN Len(handle.strides) - 1 ELSE axis[1] IN
    IF ax >= Len(desc.shape) THEN Aligned(1)
    ELSE LET shape_axis == desc.shape[ax + 1] IN
    IF shape_axis = 1 THEN Broadcasted
    ELSE IF ax >= Len(handle.strides) THEN Panic
    ELSE IF handle.strides[ax + 1] # 1 THEN Aligned(1)
    ELSE LET list == ListInUse(native, overrides)
             inner(s) == shape_axis % s = 0
         IN Scan(list, {s \in Members(list) : inner(s)})

\* fn vectorization_input(handle, desc, axis, ref_elem, overrides)
vectorization_input(handle, desc, axis, native, overrides) ==
    IF axis = None /\ Len(handle.strides) = 0 THEN Panic
    ELSE LET ax == IF axis = None THEN Len(handle.strides) - 1 ELSE axis[1] IN
    IF ax >= Len(desc.shape) THEN Panic
    ELSE LET shape_axis == desc.shape[ax + 1] IN
    IF shape_axis = 1 THEN Broadcasted
    ELSE IF ax >= Len(handle.strides) THEN Panic
    ELSE IF handle.strides[ax + 1] # 1 THEN Aligned(1)
    ELSE LET list == ListInUse(native, overrides)
             inner(s) == shape_axis % s = 0
         IN Scan(list, {s \in Members(list) : inner(s)})

\* Faulty variant: the candidate is not bounded by max.
vectorization_output_no_max(desc, axis, native, max, overrides) ==
    IF axis = None /\ Len(desc.shape) = 0 THEN Panic
    ELSE LET ax == IF axis = None THEN Len(desc.shape) - 1 ELSE axis[1] IN
    IF ListInUse(native, overrides) = <<>> THEN Aligned(1)
    ELSE IF ax >= Len(desc.shape) THEN Panic
    ELSE LET list == ListInUse(native, overrides)
             inner(s) == desc.shape[ax + 1] % s = 0
         IN Scan(list, {s \in Members(list) : inner(s)})

\* fn vectorization_output(desc, axis, ref_elem, max, overrides)
vectorization_output(desc, axis, native, max, overrides) ==
    IF axis = None /\ Len(desc.shape) = 0 THEN Panic
    ELSE LET ax == IF axis = None THEN Len(desc.shape) - 1 ELSE axis[1] IN
    IF ListInUse(native, overrides) = <<>> THEN Aligned(1)
    ELSE IF ax >= Len(desc.shape) THEN Panic
    ELSE LET list == ListInUse(native, overrides)
             inner(s) == desc.shape[ax + 1] % s = 0 /\ s <= max
         IN Scan(list, {s \in Members(list) : inner(s)})

\* Faulty variant: the last-axis test comes before the broadcast test.
vectorization_reshape_axis_first(reshaped, original, multi_reads, axis, native, max, overrides) ==
    IF axis = None /\ Len(reshaped.shape) = 0 THEN Panic
    ELSE LET ax == IF axis = None THEN Len(reshaped.shape) - 1 ELSE axis[1] IN
    IF ax >= Len(reshaped.shape) THEN Panic
    ELSE LET reshape_shape_axis == reshaped.shape[ax + 1] IN
    IF ax # Len(reshaped.shape) - 1 THEN Aligned(1)
    ELSE IF ~multi_reads /\ reshape_shape_axis = 1 THEN Broadcasted
    ELSE IF Len(original.shape) = 0 THEN Panic
    ELSE LET original_shape_axis == original.shape[Len(original.shape)] IN
    IF original_shape_axis # reshape_shape_axis THEN Aligned(1)
    ELSE LET list == ListInUse(native, overrides)
             inner(s) == reshape_shape_axis % s = 0 /\ s <= max
         IN Scan(list, {s \in Members(list) : inner(s)})

\* Faulty variant: a size-1 axis is Broadcasted whether multi-read or not.
vectorization_reshape_broadcast_any(reshaped, original, multi_reads, axis, native, max, overrides) ==
    IF axis = None /\ Len(reshaped.shape) = 0 THEN Panic
    ELSE LET ax == IF axis = None THEN Len(reshaped.shape) - 1 ELSE axis[1] IN
    IF ax >= Len(reshaped.shape) THEN Panic
    ELSE LET reshape_shape_axis == reshaped.shape[ax + 1] IN
    IF reshape_shape_axis = 1 THEN Broadcasted
    ELSE IF ax # Len(reshaped.shape) - 1 THEN Aligned(1)
    ELSE IF Len(original.shape) = 0 THEN Panic
    ELSE LET original_shape_axis == original.shape[Len(original.shape)] IN
    IF original_shape_axis # reshape_shape_axis THEN Aligned(1)
    ELSE LET list == ListInUse(native, overrides)
             inner(s) == reshape_shape_axis % s = 0 /\ original_shape_axis % s = 0 /\ s <= max
         IN Scan(list, {s \in Members(list) : inner(s)})

\* Faulty variant: the candidate is not bounded by max.
vectorization_reshape_no_max(reshaped, original, multi_reads, axis, native, max, overrides) ==
    IF axis = None /\ Len(reshaped.shape) = 0 THEN Panic
    ELSE LET ax == IF axis = None THEN Len(reshaped.shape) - 1 ELSE axis[1] IN
    IF ax >= Len(reshaped.shape) THEN Panic
    ELSE LET reshape_shape_axis == reshaped.shape[ax + 1] IN
    IF ~multi_reads /\ reshape_shape_axis = 1 THEN Broadcasted
    ELSE IF ax # Len(reshaped.shape) - 1 THEN Aligned(1)
    ELSE IF Len(original.shape) = 0 THEN Panic
    ELSE LET original_shape_axis == original.shape[Len(original.shape)] IN
    IF original_shape_axis # reshape_shape_axis THEN Aligned(1)
    ELSE LET list == ListInUse(native, overrides)
             inner(s) == reshape_shape_axis % s = 0 /\ original_shape_axis % s = 0
         IN Scan(list, {s \in Members(list) : inner(s)})

\* fn vectorization_reshape(reshaped, original, multi_reads, axis, ref_elem, max, overrides)
vectorization_reshape(reshaped, original, multi_reads, axis, native, max, overrides) ==
    IF axis = None /\ Len(reshaped.shape) = 0 THEN Panic
    ELSE LET ax == IF axis = None THEN Len(reshaped.shape) - 1 ELSE axis[1] IN
    IF ax >= Len(reshaped.shape) THEN Panic
    ELSE LET reshape_shape_axis == reshaped.shape[ax + 1] IN
    IF ~multi_reads /\ reshape_shape_axis = 1 THEN Broadcasted
    \* If the axis is not the last dim, return Aligned(1) to be sure.
    ELSE IF ax # Len(reshaped.shape) - 1 THEN Aligned(1)
    ELSE IF Len(original.shape) = 0 THEN Panic
    ELSE LET original_shape_axis == original.shape[Len(original.shape)] IN
    IF original_shape_axis # reshape_shape_axis THEN Aligned(1)
    ELSE LET list == ListInUse(native, overrides)
             inner(s) ==
                 IF ~multi_reads
                 THEN reshape_shape_axis % s = 0 /\ s <= max
                 ELSE /\ reshape_shape_axis % s = 0
                      /\ original_shape_axis % s = 0
                      /\ s <= max
         IN Scan(list, {s \in Members(list) : inner(s)})

\* Faulty variant: the broadcast test comes before the contiguity test.
vectorization_swapped_broadcast_first(handle, swapped, original, multi_reads, dims, max, axis, native, overrides) ==
    IF axis = None /\ Len(swapped.shape) = 0 THEN Panic
    ELSE LET ax == IF axis = None THEN Len(swapped.shape) - 1 ELSE axis[1] IN
    IF ax >= Len(swapped.shape) \/ ax >= Len(original.shape) THEN Panic
    ELSE LET swapped_axis == swapped.shape[ax + 1]
             shape_axis == original.shape[ax + 1]
             dim_index == IF dims[1] = ax THEN dims[2]
                          ELSE IF dims[2] = ax THEN dims[1]
                          ELSE ax
             strides == handle.strides
         IN
    IF ~multi_reads /\ swapped_axis = 1 THEN Broadcasted
    ELSE IF multi_reads /\ ax >= Len(strides) THEN Panic
    ELSE IF multi_reads /\ strides[ax + 1] # 1 THEN Aligned(1)
    ELSE IF dim_index >= Len(strides) THEN Panic
    ELSE IF strides[dim_index + 1] # 1 THEN Aligned(1)
    ELSE LET list == ListInUse(native, overrides)
             inner(s) ==
                 IF multi_reads
                 THEN swapped_axis % s = 0 /\ s <= max
                 ELSE /\ swapped_axis % s = 0
                      /\ shape_axis % s = 0
                      /\ s <= max
         IN Scan(list, {s \in Members(list) : inner(s)})

\* fn vectorization_swapped(handle, swapped, original, multi_reads, dims, max, axis,
\*                          ref_elem, overrides)
vectorization_swapped(handle, swapped, original, multi_reads, dims, max, axis, native, overrides) ==
    IF axis = None /\ Len(swapped.shape) = 0 THEN Panic
    ELSE LET ax == IF axis = None THEN Len(swapped.shape) - 1 ELSE axis[1] IN
    IF ax >= Len(swapped.shape) \/ ax >= Len(original.shape) THEN Panic
    ELSE LET swapped_axis == swapped.shape[ax + 1]
             shape_axis == original.shape[ax + 1]
             axis_index == ax
             dim_index == IF dims[1] = axis_index THEN dims[2]
                          ELSE IF dims[2] = axis_index THEN dims[1]
                          ELSE axis_index
             strides == handle.strides
         IN
    \* Last dimension strides should be 1, otherwise vecX won't be contiguous.
    IF multi_reads /\ axis_index >= Len(strides) THEN Panic
    ELSE IF multi_reads /\ strides[axis_index + 1] # 1 THEN Aligned(1)
    ELSE IF dim_index >= Len(strides) THEN Panic
    ELSE IF strides[dim_index + 1] # 1 THEN Aligned(1)
    ELSE IF ~multi_reads /\ swapped_axis = 1 THEN Broadcasted
    ELSE LET list == ListInUse(native, overrides)
             inner(s) ==
                 IF multi_reads
                 THEN swapped_axis % s = 0 /\ s <= max
                 ELSE /\ swapped_axis % s = 0
                      /\ shape_axis % s = 0
                      /\ s <= max
         IN Scan(list, {s \in Members(list) : inner(s)})

----------------------------------------------------------------------------
(* SpecMerge: the merger applied to any identity with any proposal *)

\* LineSizeOverrides::default(): #[derive(Default)]
DefaultTable == [state |-> None, default |-> None]

NoCall == [kind |-> "none"]

NoPlan == [kind |-> "none"]

Idle == <<"idle", 0>>

InitMerge ==
    /\ vectorizations = EmptyMap
    /\ proposals = [id \in TensorIds |-> <<>>]
    /\ call = NoCall
    /\ result = None
    /\ plan = NoPlan
    /\ pc = Idle
    /\ table = DefaultTable
    /\ calls = <<>>

Merge(id, vect) ==
    /\ Len(proposals[id]) < MaxProposals
    /\ vectorizations' = multi_reads_vectorization_update(vectorizations, id, vect)
    /\ proposals' = [proposals EXCEPT ![id] = Append(@, vect)]
    /\ UNCHANGED <<call, result, plan, pc, table, calls>>

NextMerge == \E id \in MergeIds, vect \in Vects : Merge(id, vect)

SpecMerge == InitMerge /\ [][NextMerge]_vars

----------------------------------------------------------------------------
(* Properties of the merger (SpecMerge) *)

\* The step that merges proposal vect into identity id.
MergedInto(id, vect) == proposals' = [proposals EXCEPT ![id] = Append(@, vect)]

\* C1: every merge step follows the four rules of the conflict merger: no
\* prior entry, the proposal is recorded as-is; prior Broadcasted, the entry is
\* unchanged; prior Aligned(old) and proposal Broadcasted, Aligned(1); prior
\* Aligned(old) and proposal Aligned(new), Aligned(old) if new = old, else
\* Aligned(1).  The entries of all other identities are left unchanged.
C1_MergeRules ==
    [][\A id \in TensorIds, vect \in Vects :
        MergedInto(id, vect) =>
          /\ DOMAIN vectorizations' = (DOMAIN vectorizations) \cup {id}
          /\ \A other \in DOMAIN vectorizations :
                other # id => vectorizations'[other] = vectorizations[other]
          /\ id \notin DOMAIN vectorizations => vectorizations'[id] = vect
          /\ id \in DOMAIN vectorizations =>
                LET prior == vectorizations[id] IN
                /\ is_broadcast(prior) => vectorizations'[id] = Broadcasted
                /\ IsAligned(prior) /\ is_broadcast(vect) =>
                      vectorizations'[id] = Aligned(1)
                /\ IsAligned(prior) /\ IsAligned(vect) =>
                      vectorizations'[id] =
                          IF vect[2] = prior[2] THEN Aligned(prior[2]) ELSE Aligned(1)
      ]_vars

\* An identity went Aligned(4), Aligned(2) and holds Aligned(1) while another
\* identity holds its own entry.
C1_Witness ==
    \E id, other \in TensorIds :
        /\ id # other
        /\ proposals[id] = <<Aligned(4), Aligned(2)>>
        /\ vectorizations[id] = Aligned(1)
        /\ proposals[other] = <<Broadcasted, Aligned(4)>>
        /\ vectorizations[other] = Broadcasted

\* C2 as stated: Broadcasted then any Aligned(w), from no prior entry, ends
\* with Aligned(1); Broadcasted proposals only remain Broadcasted.
C2_Original ==
    \A id \in TensorIds :
        LET p == proposals[id] IN
        /\ (Len(p) = 2 /\ is_broadcast(p[1]) /\ IsAligned(p[2]))
              => vectorizations[id] = Aligned(1)
        /\ (Len(p) >= 1 /\ \A i \in 1..Len(p) : is_broadcast(p[i]))
              => vectorizations[id] = Broadcasted

\* C2 amended: Broadcasted then any Aligned(w), from no prior entry, ends with
\* Broadcasted (the recorded Broadcasted is kept); Broadcasted proposals only
\* remain Broadcasted.
C2_Absorption ==
    \A id \in TensorIds :
        LET p == proposals[id] IN
        /\ (Len(p) = 2 /\ is_broadcast(p[1]) /\ IsAligned(p[2]))
              => vectorizations[id] = Broadcasted
        /\ (Len(p) >= 1 /\ \A i \in 1..Len(p) : is_broadcast(p[i]))
              => vectorizations[id] = Broadcasted

\* An identity received Broadcasted then Aligned(4).
C2_Witness ==
    \E id \in TensorIds :
        /\ proposals[id] = <<Broadcasted, Aligned(4)>>
        /\ id \in DOMAIN vectorizations

\* C3: two Aligned proposals of different widths merged into an identity with
\* no prior entry give Aligned(1), whichever of the two is merged first.
C3_MismatchCommutes ==
    \A id \in TensorIds : \A a, b \in Widths :
        (a # b /\ ( \/ proposals[id] = <<Aligned(a), Aligned(b)>>
                    \/ proposals[id] = <<Aligned(b), Aligned(a)>> ))
            => vectorizations[id] = Aligned(1)

\* One identity went Aligned(4), Aligned(2) and another Aligned(2), Aligned(4);
\* both hold Aligned(1).
C3_Witness ==
    \E id, other \in TensorIds :
        /\ proposals[id] = <<Aligned(4), Aligned(2)>>
        /\ proposals[other] = <<Aligned(2), Aligned(4)>>
        /\ vectorizations[id] = Aligned(1)
        /\ vectorizations[other] = Aligned(1)

\* Every proposal of the sequence is Aligned(w).
AllAligned(p, w) == \A i \in 1..Len(p) : p[i] = Aligned(w)

\* C17: over any sequence of proposals merged into one identity that starts
\* with no entry, the recorded line size never increases from one merge step
\* to the next; the final line size is w if every proposal was Aligned(w) for
\* one common w and 1 otherwise, so it never exceeds the line size of any
\* proposal; and the final decision is Broadcasted exactly when the first
\* proposal was Broadcasted.
C17_MergeMonotone ==
    [][\A id \in TensorIds, vect \in Vects :
        MergedInto(id, vect) =>
          LET p == proposals'[id]
              final == vectorizations'[id]
          IN
          /\ id \in DOMAIN vectorizations =>
                line_size(final) <= line_size(vectorizations[id])
          /\ \A w \in Widths : AllAligned(p, w) => line_size(final) = w
          /\ (\A w \in Widths : ~AllAligned(p, w)) => line_size(final) = 1
          /\ \A i \in 1..Len(p) : line_size(final) <= line_size(p[i])
          /\ is_broadcast(final) <=> is_broadcast(p[1])
      ]_vars

\* An identity went Aligned(4), Aligned(4), Broadcasted and holds Aligned(1);
\* another went Broadcasted, Aligned(4) and holds Broadcasted.
C17_Witness ==
    \E id, other \in TensorIds :
        /\ proposals[id] = <<Aligned(4), Aligned(4), Broadcasted>>
        /\ vectorizations[id] = Aligned(1)
        /\ proposals[other] = <<Broadcasted, Aligned(4)>>
        /\ vectorizations[other] = Broadcasted

----------------------------------------------------------------------------
(* SpecResolve: each resolver applied to inputs drawn from bounded sets *)

SeqsUpTo(S, n) == UNION {[1..k -> S] : k \in 0..n}

NoRepeat(l) == \A i, j \in 1..Len(l) : l[i] = l[j] => i = j

\* Candidate lists an override can hold.
CandLists == {l \in SeqsUpTo(Widths, MaxCands) : NoRepeat(l)}

\* Option<&Vec<u8>>
Overrides == {None} \cup {Some(l) : l \in CandLists}

Shapes == UNION {[1..k -> Extents] : k \in Ranks}

Strides == UNION {[1..k -> StrideVals] : k \in Ranks}

\* Option<usize>; the largest index is past the end of every shape.
Axes == {None} \cup {Some(a) : a \in 0..2}

\* &(u32, u32): the two axes a transposition exchanges.
DimsOf(shape) == (0..(Len(shape) - 1)) \X (0..(Len(shape) - 1))

\* The shape of the transposed view of a tensor of the given shape.
SwapDims(shape, dims) ==
    [i \in 1..Len(shape) |->
        IF i = dims[1] + 1 THEN shape[dims[2] + 1]
        ELSE IF i = dims[2] + 1 THEN shape[dims[1] + 1]
        ELSE shape[i]]

InitResolve ==
    /\ vectorizations = EmptyMap
    /\ proposals = [id \in TensorIds |-> <<>>]
    /\ call = NoCall
    /\ result = None
    /\ plan = NoPlan
    /\ pc = Idle
    /\ table = DefaultTable
    /\ calls = <<>>

CallInput ==
    /\ call = NoCall
    /\ \E strides \in Strides, shape \in Shapes, axis \in Axes,
          native \in NativeLists, overrides \in Overrides :
          /\ call' = [kind |-> "input", strides |-> strides, shape |-> shape,
                      axis |-> axis, native |-> native, overrides |-> overrides]
          /\ result' = Some(vectorization_input([strides |-> strides],
                                [shape |-> shape], axis, native, overrides))
    /\ UNCHANGED <<vectorizations, proposals, plan, pc, table, calls>>

CallOutput ==
    /\ call = NoCall
    /\ \E shape \in Shapes, axis \in Axes, max \in Maxes,
          native \in NativeLists, overrides \in Overrides :
          /\ call' = [kind |-> "output", shape |-> shape, axis |-> axis,
                      max |-> max, native |-> native, overrides |-> overrides]
          /\ result' = Some(vectorization_output([shape |-> shape], axis,
                                native, max, overrides))
    /\ UNCHANGED <<vectorizations, proposals, plan, pc, table, calls>>

CallReshape ==
    /\ call = NoCall
    /\ \E reshaped \in Shapes, original \in Shapes, multi_reads \in BOOLEAN,
          axis \in Axes, max \in Maxes,
          native \in NativeLists, overrides \in Overrides :
          /\ call' = [kind |-> "reshape", shape |-> reshaped, original |-> original,
                      multi_reads |-> multi_reads, axis |-> axis,
                      max |-> max, native |-> native, overrides |-> overrides]
          /\ result' = Some(vectorization_reshape([shape |-> reshaped],
                                [shape |-> original], multi_reads, axis,
                                native, max, overrides))
    /\ UNCHANGED <<vectorizations, proposals, plan, pc, table, calls>>

CallSwapped ==
    /\ call = NoCall
    /\ \E strides \in Strides, original \in Shapes,
          multi_reads \in BOOLEAN, axis \in Axes, max \in Maxes,
          native \in NativeLists, overrides \in Overrides :
       \E dims \in DimsOf(original) :
       LET swapped == SwapDims(original, dims) IN
          /\ call' = [kind |-> "swapped", strides |-> strides, shape |-> swapped,
                      original |-> original, multi_reads |-> multi_reads,
                      dims |-> dims, axis |-> axis,
                      max |-> max, native |-> native, overrides |-> overrides]
          /\ result' = Some(vectorization_swapped([strides |-> strides],
                                [shape |-> swapped], [shape |-> original],
                                multi_reads, dims, max, axis, native, overrides))
    /\ UNCHANGED <<vectorizations, proposals, plan, pc, table, calls>>

NextResolve == CallInput \/ CallOutput \/ CallReshape \/ CallSwapped

SpecResolve == InitResolve /\ [][NextResolve]_vars

----------------------------------------------------------------------------
(* Properties of the resolvers (SpecResolve) *)

Called(kind) == call # NoCall /\ call.kind = kind

\* The decision the call returned.
Returned == result[1]

\* The candidate list the call uses: the override list when one is present,
\* the native list only when no override is present.
CallList == IF call.overrides = None THEN call.native ELSE call.overrides[1]

\* w is the first member of list that is in the set good.
FirstGood(list, w, good) ==
    \E i \in 1..Len(list) :
        /\ list[i] = w
        /\ w \in good
        /\ \A j \in 1..(i - 1) : list[j] \notin good

NoneGood(list, good) == \A i \in 1..Len(list) : list[i] \notin good

\* The decision of a candidate scan: the first good candidate, else 1.
ScanDecides(list, good) ==
    \/ \E w \in Widths : FirstGood(list, w, good) /\ Returned = Aligned(w)
    \/ NoneGood(list, good) /\ Returned = Aligned(1)

\* The vectorization axis of a call; None is the last axis of `seq`.
AxisOf(seq) == IF call.axis = None THEN Len(seq) - 1 ELSE call.axis[1]

\* C4: the plain-input resolver returns Broadcasted if the axis extent is 1
\* (whatever the stride); otherwise Aligned(1) if the stride at the axis is not
\* 1; otherwise Aligned(w) for the first w of the list in use that divides the
\* axis extent; otherwise Aligned(1).  The list in use is the override list
\* when present, the native list only when no override is present.  None is
\* the last axis of the handle's strides.
C4_InputResolver ==
    Called("input") =>
        LET ax == AxisOf(call.strides) IN
        (ax < Len(call.shape) /\ ax < Len(call.strides)) =>
            LET extent == call.shape[ax + 1]
                stride == call.strides[ax + 1]
                Divides(w) == extent % w = 0
            IN /\ extent = 1 => Returned = Broadcasted
               /\ (extent # 1 /\ stride # 1) => Returned = Aligned(1)
               /\ (extent # 1 /\ stride = 1) => ScanDecides(CallList, {w \in Widths : Divides(w)})

\* A size-1 axis with stride 16 is Broadcasted.
C4_Witness ==
    /\ Called("input")
    /\ call.shape = <<16, 1>> /\ call.strides = <<1, 16>> /\ call.axis = Some(1)
    /\ Returned = Broadcasted

\* C5 as stated: every Aligned(w) the plain-input resolver returns has the
\* axis extent divisible by w and the stride at the axis equal to 1.
C5_Original ==
    (Called("input") /\ IsAligned(Returned)) =>
        LET ax == AxisOf(call.strides) IN
        /\ call.shape[ax + 1] % Returned[2] = 0
        /\ call.strides[ax + 1] = 1

\* C5 amended: every Aligned(w) the plain-input resolver returns has the axis
\* extent divisible by w, and if w > 1 the stride at the axis is 1.
C5_AlignedIsSafe ==
    (Called("input") /\ IsAligned(Returned)) =>
        LET ax == AxisOf(call.strides) IN
        /\ call.shape[ax + 1] % Returned[2] = 0
        /\ Returned[2] > 1 => call.strides[ax + 1] = 1

\* Extent 16 with stride 1 is packed by 4; the same call could not be packed
\* were the stride not 1.
C5_Witness ==
    /\ Called("input")
    /\ call.shape = <<2, 16>> /\ call.strides = <<16, 1>> /\ call.axis = None
    /\ call.overrides = None /\ call.native = <<4, 2, 1>>
    /\ Returned = Aligned(4)

\* C6: the output resolver returns Aligned(w) for the first w of the list in
\* use with the axis extent divisible by w and w <= max, Aligned(1) if there
\* is none; it is never Broadcasted, even when the axis extent is 1.
C6_OutputResolver ==
    Called("output") =>
        LET ax == AxisOf(call.shape) IN
        ax < Len(call.shape) =>
            LET extent == call.shape[ax + 1]
                Fits(w) == extent % w = 0 /\ w <= call.max
            IN /\ ScanDecides(CallList, {w \in Widths : Fits(w)})
               /\ Returned # Broadcasted

\* Extent 15 with max 4 and candidates [4, 2, 1] is Aligned(1).
C6_Witness ==
    /\ Called("output")
    /\ call.shape = <<16, 15>> /\ call.axis = Some(1) /\ call.max = 4
    /\ call.overrides = None /\ call.native = <<4, 2, 1>>
    /\ Returned = Aligned(1)

\* C7: the reshape resolver applies, in this order: (1) not multi-read and
\* reshaped axis extent 1, Broadcasted; (2) the axis is not the reshaped
\* tensor's last axis, Aligned(1); (3) the original's last-axis extent differs
\* from the reshaped axis extent, Aligned(1); (4) the first candidate w with
\* w <= max and the reshaped extent divisible by w and, when multi-read, the
\* original's last-axis extent divisible by w; else Aligned(1).
C7_ReshapeResolver ==
    Called("reshape") =>
        LET ax == AxisOf(call.shape) IN
        ax < Len(call.shape) =>
            LET extent == call.shape[ax + 1]
                last == call.original[Len(call.original)]
                rule1 == ~call.multi_reads /\ extent = 1
                rule2 == ax # Len(call.shape) - 1
                rule3 == last # extent
                Fits(w) == /\ w <= call.max
                           /\ extent % w = 0
                           /\ call.multi_reads => last % w = 0
            IN /\ rule1 => Returned = Broadcasted
               /\ (~rule1 /\ rule2) => Returned = Aligned(1)
               /\ (~rule1 /\ ~rule2 /\ rule3) => Returned = Aligned(1)
               /\ (~rule1 /\ ~rule2 /\ ~rule3) => ScanDecides(CallList, {w \in Widths : Fits(w)})

\* A size-1 axis that is not the last axis, not multi-read, is Broadcasted.
C7_Witness ==
    /\ Called("reshape")
    /\ call.shape = <<1, 16>> /\ call.axis = Some(0) /\ ~call.multi_reads
    /\ Returned = Broadcasted

\* C8: the swapped resolver, with dim_index the other member of the swapped
\* pair when the axis is one member, else the axis: Aligned(1) if the
\* contiguity check fails (multi-read: the strides at the axis and at
\* dim_index must both be 1; else only the stride at dim_index), and this
\* precedes the broadcast check; else Broadcasted if not multi-read and the
\* swapped axis extent is 1; else the first candidate w with w <= max and the
\* swapped axis extent divisible by w and, when not multi-read, the original's
\* extent at the axis divisible by w; else Aligned(1).
C8_SwappedResolver ==
    Called("swapped") =>
        LET ax == AxisOf(call.shape)
            dim_index == IF call.dims[1] = ax THEN call.dims[2]
                         ELSE IF call.dims[2] = ax THEN call.dims[1]
                         ELSE ax
        IN
        (ax < Len(call.shape) /\ ax < Len(call.strides)
            /\ dim_index < Len(call.strides)) =>
            LET swapped_extent == call.shape[ax + 1]
                original_extent == call.original[ax + 1]
                contiguous ==
                    /\ call.strides[dim_index + 1] = 1
                    /\ call.multi_reads => call.strides[ax + 1] = 1
                broadcast == ~call.multi_reads /\ swapped_extent = 1
                Fits(w) == /\ w <= call.max
                           /\ swapped_extent % w = 0
                           /\ ~call.multi_reads => original_extent % w = 0
            IN /\ ~contiguous => Returned = Aligned(1)
               /\ (contiguous /\ broadcast) => Returned = Broadcasted
               /\ (contiguous /\ ~broadcast) => ScanDecides(CallList, {w \in Widths : Fits(w)})

\* A swapped axis of extent 1 on a non-contiguous handle, not multi-read, is
\* Aligned(1), not Broadcasted.
C8_Witness ==
    /\ Called("swapped")
    /\ call.shape = <<16, 1>> /\ call.original = <<1, 16>>
    /\ call.dims = <<0, 1>> /\ call.axis = None /\ ~call.multi_reads
    /\ call.strides = <<8, 1>>
    /\ Returned = Aligned(1)

\* The axis of the call, None being the last axis of the sequence the resolver
\* takes it from: the handle's strides for the plain-input resolver, the
\* (reshaped, swapped) shape for the others.
CallAxis == IF call.kind = "input" THEN AxisOf(call.strides) ELSE AxisOf(call.shape)

\* C11: for each of the four resolvers, a returned Aligned(w) has w = 1 or w
\* a member of the candidate list in use (override list if present, else the
\* native list); a returned Broadcasted implies that the tensor's extent at
\* the vectorization axis is 1 and, for the reshape and swapped resolvers,
\* that multi_reads is false.
C11_DecisionRange ==
    (call # NoCall /\ call.kind \in {"input", "output", "reshape", "swapped"}) =>
        /\ IsAligned(Returned) =>
              (Returned[2] = 1 \/ Returned[2] \in Members(CallList))
        /\ is_broadcast(Returned) =>
              /\ call.kind # "output"
              /\ CallAxis < Len(call.shape)
              /\ call.shape[CallAxis + 1] = 1
              /\ call.kind \in {"reshape", "swapped"} => ~call.multi_reads

\* The swapped resolver returned Broadcasted for a contiguous, not multi-read
\* pair whose swapped axis has extent 1.
C11_Witness ==
    /\ Called("swapped")
    /\ call.shape = <<16, 1>> /\ call.original = <<1, 16>>
    /\ call.dims = <<0, 1>> /\ call.axis = None /\ ~call.multi_reads
    /\ call.strides = <<1, 8>>
    /\ Returned = Broadcasted

\* The axis is an index of the shape.
AxisMapped == CallAxis < Len(call.shape)

\* Every index the resolver may read is in range: the axis in the shape and,
\* where strides are read, the axis and dim_index in the strides.
IndicesMapped ==
    /\ AxisMapped
    /\ call.kind = "input" => CallAxis < Len(call.strides)
    /\ call.kind = "swapped" =>
          /\ CallAxis < Len(call.strides)
          /\ \A k \in 1..2 : call.dims[k] < Len(call.strides)

\* C12 as stated: every resolver call ends in a decision and never aborts; a
\* zero-length axis (with a non-empty candidate list), an unmapped axis and
\* incompatible reshape shapes (multi-read) each yield Aligned(1).
C12_Original ==
    (call # NoCall /\ call.kind \in {"input", "output", "reshape", "swapped"}) =>
        /\ Returned # Panic
        /\ (AxisMapped /\ call.shape[CallAxis + 1] = 0 /\ CallList # <<>>)
              => Returned = Aligned(1)
        /\ ~AxisMapped => Returned = Aligned(1)
        /\ (call.kind = "reshape" /\ call.multi_reads /\ AxisMapped
                /\ call.original[Len(call.original)] # call.shape[CallAxis + 1])
              => Returned = Aligned(1)

\* C12 amended: a resolver call whose indices are all in range ends in a
\* decision; a call whose axis is not an index of the shape aborts (only the
\* output resolver with an empty candidate list answers Aligned(1) there); a
\* zero-length axis is divisible by every width, so the plain-input resolver
\* on a stride-1 axis returns the first candidate and the output resolver the
\* first candidate within max, Aligned(1) only when there is none;
\* incompatible reshape shapes (multi-read) yield Aligned(1).
C12_EdgeCases ==
    (call # NoCall /\ call.kind \in {"input", "output", "reshape", "swapped"}) =>
        /\ IndicesMapped => Returned # Panic
        /\ ~AxisMapped =>
              IF call.kind = "output" /\ CallList = <<>>
              THEN Returned = Aligned(1)
              ELSE Returned = Panic
        /\ (call.kind = "input" /\ IndicesMapped /\ call.shape[CallAxis + 1] = 0
                /\ call.strides[CallAxis + 1] = 1 /\ CallList # <<>>)
              => Returned = Aligned(CallList[1])
        /\ (call.kind = "output" /\ AxisMapped /\ call.shape[CallAxis + 1] = 0)
              => ScanDecides(CallList, {w \in Widths : w <= call.max})
        /\ (call.kind = "reshape" /\ call.multi_reads /\ AxisMapped
                /\ call.original[Len(call.original)] # call.shape[CallAxis + 1])
              => Returned = Aligned(1)

\* The plain-input resolver was called with an axis past the end of the shape
\* and aborted.
C12_Witness ==
    /\ Called("input")
    /\ call.shape = <<0, 16>> /\ call.strides = <<16, 1>> /\ call.axis = Some(2)
    /\ Returned = Panic

----------------------------------------------------------------------------
(* struct LineSizeOverrides { state: Option<BTreeMap<TensorId, Vec<u8>>>,   *)
(*                            default: Option<Vec<u8>> }                    *)

\* Faulty variant: an identity that already has an entry keeps it.
overrides_keep_first(self, tensor_id, line_sizes) ==
    LET map == IF self.state = None THEN EmptyMap ELSE self.state[1]
    IN IF tensor_id \in DOMAIN map
       THEN self
       ELSE [self EXCEPT !.state = Some(MapInsert(map, tensor_id, line_sizes))]

\* fn overrides(&mut self, tensor_id, line_sizes)
overrides(self, tensor_id, line_sizes) ==
    LET map == IF self.state = None THEN EmptyMap ELSE self.state[1]
    IN [self EXCEPT !.state = Some(MapInsert(map, tensor_id, line_sizes))]

\* fn overrides_default(&mut self, line_sizes)
overrides_default(self, line_sizes) == [self EXCEPT !.default = Some(line_sizes)]

Max(S) == CHOOSE x \in S : \A y \in S : x >= y

\* Faulty variant: an entry whose identity has no translation is skipped.
mapping_skip_missing(self, context) ==
    IF self.state = None
    THEN Some([state |-> None, default |-> self.default])
    ELSE LET state == self.state[1]
             known == {k \in DOMAIN state : k \in DOMAIN context.tensors}
             sources(g) == {k \in known : context.tensors[k].id = g}
             state_new == [g \in {context.tensors[k].id : k \in known} |-> state[Max(sources(g))]]
         IN Some([state |-> Some(state_new), default |-> self.default])

\* fn mapping(&self, context) -> Self: Some(the new table), or None when
\* context.tensors.get(k).unwrap() aborts on an identity without translation
\* and no table is returned.  The entries are inserted in ascending key order,
\* so of two entries translated to one identity the later stays.
mapping(self, context) ==
    IF self.state = None
    THEN Some([state |-> None, default |-> self.default])
    ELSE LET state == self.state[1] IN
         IF \E k \in DOMAIN state : k \notin DOMAIN context.tensors
         THEN None
         ELSE LET sources(g) == {k \in DOMAIN state : context.tensors[k].id = g}
                  state_new == [g \in {context.tensors[k].id : k \in DOMAIN state} |-> state[Max(sources(g))]]
              IN Some([state |-> Some(state_new), default |-> self.default])

\* fn tensor(&self, tensor_id) -> Option<&Vec<u8>>
tensor(self, tensor_id) ==
    IF self.state = None
    THEN self.default
    ELSE LET map == self.state[1] IN
         IF tensor_id \in DOMAIN map THEN Some(map[tensor_id]) ELSE self.default

----------------------------------------------------------------------------
(* fn vectorization_default(vectorizations, handles_inputs, inputs, outputs, *)
(*     reshaped, swapped, ref_elem, overrides, max, axis)                    *)
(* One step per loop iteration; pc names the loop and the item.              *)

\* handles_inputs.zip(inputs)
Zip(a, b) == [i \in 1..Min({Len(a), Len(b)}) |-> <<a[i], b[i]>>]

\* Faulty variant: the input is looked up on the swapped side of the pairs.
FindSwapped_by_swapped(swapped, id) ==
    LET hits == {i \in 1..Len(swapped) : swapped[i][1].id = id}
    IN IF hits = {} THEN 0 ELSE Min(hits)

\* swapped.iter().find(|(_s, o, _mr, _dims)| o.id == tensor.id): the index of
\* the first pair whose original is the tensor, 0 when there is none.
FindSwapped(swapped, id) ==
    LET hits == {i \in 1..Len(swapped) : swapped[i][2].id = id}
    IN IF hits = {} THEN 0 ELSE Min(hits)

\* The number of items of a loop.
WorkLen(p, loop) ==
    IF loop = "inputs" THEN Len(Zip(p.handles_inputs, p.inputs))
    ELSE IF loop = "reshaped" THEN Len(p.reshaped)
    ELSE Len(p.outputs)

\* The first item at or after loop number k (inputs, reshaped, outputs).
StartAt(p, k) ==
    IF k <= 1 /\ WorkLen(p, "inputs") > 0 THEN <<"inputs", 1>>
    ELSE IF k <= 2 /\ WorkLen(p, "reshaped") > 0 THEN <<"reshaped", 1>>
    ELSE IF k <= 3 /\ WorkLen(p, "outputs") > 0 THEN <<"outputs", 1>>
    ELSE <<"done", 0>>

\* The item after item i of a loop.
After(p, loop, i) ==
    IF i < WorkLen(p, loop) THEN <<loop, i + 1>>
    ELSE IF loop = "inputs" THEN StartAt(p, 2)
    ELSE IF loop = "reshaped" THEN StartAt(p, 3)
    ELSE <<"done", 0>>

\* A resolver that aborts takes the whole pass with it.
Aborted == <<"aborted", 0>>

\* Faulty variant: a swapped input is not recorded.
InputResult_skip_swapped(m, p, i) ==
    LET handle == Zip(p.handles_inputs, p.inputs)[i][1]
        desc == Zip(p.handles_inputs, p.inputs)[i][2]
    IN IF FindSwapped(p.swapped, desc.id) # 0
       THEN Some(m)
       ELSE Some(MapInsert(m, desc.id, vectorization_input(handle, desc, p.axis, p.native, tensor(p.overrides, desc.id))))

\* The body of the loop over the bound inputs: the mapping after item i, None
\* when the resolver aborts.
InputResult(m, p, i) ==
    LET handle == Zip(p.handles_inputs, p.inputs)[i][1]
        desc == Zip(p.handles_inputs, p.inputs)[i][2]
        found == FindSwapped(p.swapped, desc.id)
    IN IF found # 0
       THEN LET s == p.swapped[found][1]
                o == p.swapped[found][2]
                mr == p.swapped[found][3]
                dims == p.swapped[found][4]
                val == vectorization_swapped(handle, s, o, mr, dims, p.max, p.axis, p.native, tensor(p.overrides, desc.id))
            IN IF val = Panic THEN None
               ELSE Some(multi_reads_vectorization_update(m, o.id, val))
       ELSE LET val == vectorization_input(handle, desc, p.axis, p.native, tensor(p.overrides, desc.id))
            IN IF val = Panic THEN None
               ELSE Some(MapInsert(m, desc.id, val))

\* The body of the loop over the reshape pairs.
ReshapedResult(m, p, i) ==
    LET reshaped == p.reshaped[i][1]
        original == p.reshaped[i][2]
        multi_reads == p.reshaped[i][3]
        val == vectorization_reshape(reshaped, original, multi_reads, p.axis, p.native, p.max, tensor(p.overrides, original.id))
    IN IF val = Panic THEN None
       ELSE Some(multi_reads_vectorization_update(m, original.id, val))

\* The body of the loop over the outputs.
OutputResult(m, p, i) ==
    LET desc == p.outputs[i]
        val == vectorization_output(desc, p.axis, p.native, p.max, tensor(p.overrides, desc.id))
    IN IF val = Panic THEN None
       ELSE Some(MapInsert(m, desc.id, val))

StepInput ==
    /\ pc[1] = "inputs"
    /\ LET r == InputResult(vectorizations, plan, pc[2]) IN
       IF r = None
       THEN pc' = Aborted /\ UNCHANGED vectorizations
       ELSE pc' = After(plan, "inputs", pc[2]) /\ vectorizations' = r[1]
    /\ UNCHANGED <<proposals, call, result, plan, table, calls>>

StepReshaped ==
    /\ pc[1] = "reshaped"
    /\ LET r == ReshapedResult(vectorizations, plan, pc[2]) IN
       IF r = None
       THEN pc' = Aborted /\ UNCHANGED vectorizations
       ELSE pc' = After(plan, "reshaped", pc[2]) /\ vectorizations' = r[1]
    /\ UNCHANGED <<proposals, call, result, plan, table, calls>>

StepOutput ==
    /\ pc[1] = "outputs"
    /\ LET r == OutputResult(vectorizations, plan, pc[2]) IN
       IF r = None
       THEN pc' = Aborted /\ UNCHANGED vectorizations
       ELSE pc' = After(plan, "outputs", pc[2]) /\ vectorizations' = r[1]
    /\ UNCHANGED <<proposals, call, result, plan, table, calls>>

----------------------------------------------------------------------------
(* SpecDefault: vectorization_default run over the fusion plans built from   *)
(* three views of one 32-element storage.                                    *)

\* desc.shape of each tensor identity.
ShapeOf == 0 :> <<2, 16>> @@ 1 :> <<16, 2>> @@ 2 :> <<1, 2, 16>>

\* handle.strides of the handle bound to each identity; the handle of
\* identity 1 is a transposed storage.
StridesOf == 0 :> <<16, 1>> @@ 1 :> <<1, 16>> @@ 2 :> <<32, 16, 1>>

TensorIr(id) == [id |-> id, shape |-> ShapeOf[id]]

CubeFusionHandle(id) == [strides |-> StridesOf[id]]

\* (swapped, original, multi_reads, dims): the swapped shape is the original
\* shape with the two axes exchanged.
SwapPairs ==
    LET all == {<<TensorIr(s), TensorIr(o), mr, <<0, 1>>>> :
                    s \in TensorIds, o \in TensorIds, mr \in BOOLEAN}
    IN {q \in all : q[1].shape = SwapDims(q[2].shape, q[4])}

\* (reshaped, original, multi_reads)
ReshapePairs ==
    {q \in {<<TensorIr(r), TensorIr(o), mr>> :
                r \in TensorIds, o \in TensorIds, mr \in BOOLEAN} :
        q[1].id # q[2].id}

\* The bound inputs: up to two distinct tensors, each with its handle.
InputLists == {l \in SeqsUpTo(TensorIds, 2) : NoRepeat(l)}

SwappedLists == {l \in SeqsUpTo(SwapPairs, MaxSwapped) : NoRepeat(l)}

ReshapedLists == SeqsUpTo(ReshapePairs, 1)

OutputLists == SeqsUpTo(TensorIds, 1)

\* The override tables: none, or [2] for identity 0 and [4] by default.
OverrideTables ==
    { [state |-> None, default |-> None],
      [state |-> Some(0 :> <<2>>), default |-> Some(<<4>>)] }

\* axis: the last axis, or axis 0.
PlanAxes == {None, Some(0)}

\* max
PlanMaxes == {2, 4}

Plans ==
    { [ handles_inputs |-> [i \in 1..Len(ins) |-> CubeFusionHandle(ins[i])],
        inputs |-> [i \in 1..Len(ins) |-> TensorIr(ins[i])],
        outputs |-> [i \in 1..Len(outs) |-> TensorIr(outs[i])],
        reshaped |-> re,
        swapped |-> sw,
        native |-> <<4, 2, 1>>,
        overrides |-> ov,
        max |-> max,
        axis |-> axis ] :
      ins \in InputLists, outs \in OutputLists, re \in ReshapedLists,
      sw \in SwappedLists, ov \in OverrideTables, max \in PlanMaxes,
      axis \in PlanAxes }

InitDefault ==
    /\ vectorizations = EmptyMap
    /\ proposals = [id \in TensorIds |-> <<>>]
    /\ call = NoCall
    /\ result = None
    /\ plan \in Plans
    /\ pc = StartAt(plan, 1)
    /\ table = DefaultTable
    /\ calls = <<>>

NextDefault == StepInput \/ StepReshaped \/ StepOutput

SpecDefault == InitDefault /\ [][NextDefault]_vars

----------------------------------------------------------------------------
(* SpecRerun: vectorization_default run a second time with the same         *)
(* arguments, on an empty mapping or on the mapping the first run produced.  *)

RECURSIVE Pass(_, _, _)

\* A whole call of vectorization_default on mapping m, from position at: the
\* three loops in order; Some(mapping), or None when a resolver aborts.
Pass(m, p, at) ==
    IF at[1] = "done" THEN Some(m)
    ELSE LET r == CASE at[1] = "inputs" -> InputResult(m, p, at[2])
                    [] at[1] = "reshaped" -> ReshapedResult(m, p, at[2])
                    [] at[1] = "outputs" -> OutputResult(m, p, at[2])
         IN IF r = None THEN None ELSE Pass(r[1], p, After(p, at[1], at[2]))

\* The second call: `call` records how it was started and `result` the mapping
\* of the first call.
Rerun(keep) ==
    /\ pc[1] = "done"
    /\ call = NoCall
    /\ LET start == IF keep THEN vectorizations ELSE EmptyMap
           r == Pass(start, plan, StartAt(plan, 1))
       IN /\ r # None
          /\ vectorizations' = r[1]
    /\ call' = [kind |-> "rerun", keep |-> keep]
    /\ result' = Some(vectorizations)
    /\ UNCHANGED <<proposals, plan, pc, table, calls>>

NextRerun == NextDefault \/ \E keep \in BOOLEAN : Rerun(keep)

SpecRerun == InitDefault /\ [][NextRerun]_vars

----------------------------------------------------------------------------
(* SpecOverrides: a LineSizeOverrides built from the default table by        *)
(* overrides and overrides_default calls, then remapped through a context.   *)

\* Longest sequence of overrides / overrides_default calls.
MaxCalls == 3

\* The candidate lists given to the table.
TableLists == {<<2>>, <<4>>}

\* The identities that local identities are translated to.
GlobalIds == {10, 11, 12}

\* context.tensors: a partial map from local identities to the descriptors of
\* the global tensors; distinct local identities have distinct global ones.
Contexts ==
    LET maps == UNION {[D -> GlobalIds] : D \in SUBSET TensorIds}
        injective(f) == \A a, b \in DOMAIN f : f[a] = f[b] => a = b
    IN {[tensors |-> [k \in DOMAIN f |-> [id |-> f[k]]]] : f \in {g \in maps : injective(g)}}

InitOverrides ==
    /\ vectorizations = EmptyMap
    /\ proposals = [id \in TensorIds |-> <<>>]
    /\ call = NoCall
    /\ result = None
    /\ plan = NoPlan
    /\ pc = Idle
    /\ table = DefaultTable
    /\ calls = <<>>

CallOverrides(tensor_id, line_sizes) ==
    /\ call = NoCall
    /\ Len(calls) < MaxCalls
    /\ table' = overrides(table, tensor_id, line_sizes)
    /\ calls' = Append(calls, <<"overrides", tensor_id, line_sizes>>)
    /\ UNCHANGED <<vectorizations, proposals, call, result, plan, pc>>

CallOverridesDefault(line_sizes) ==
    /\ call = NoCall
    /\ Len(calls) < MaxCalls
    /\ table' = overrides_default(table, line_sizes)
    /\ calls' = Append(calls, <<"overrides_default", line_sizes>>)
    /\ UNCHANGED <<vectorizations, proposals, call, result, plan, pc>>

\* mapping takes &self: the table it is called on stays as it is.  `result`
\* is the table returned, None when the call aborted.
CallMapping(context) ==
    /\ call = NoCall
    /\ call' = [kind |-> "mapping", context |-> context]
    /\ result' = mapping(table, context)
    /\ UNCHANGED <<vectorizations, proposals, plan, pc, table, calls>>

NextOverrides ==
    \/ \E tensor_id \in TensorIds, line_sizes \in TableLists : CallOverrides(tensor_id, line_sizes)
    \/ \E line_sizes \in TableLists : CallOverridesDefault(line_sizes)
    \/ \E context \in Contexts : CallMapping(context)

SpecOverrides == InitOverrides /\ [][NextOverrides]_vars

----------------------------------------------------------------------------
(* Properties of the orchestrator (SpecDefault) *)

\* The identities of a sequence of descriptors.
IdsOf(descs) == {descs[i].id : i \in 1..Len(descs)}

\* The identities on side k of a sequence of pairs.
SideIds(pairs, k) == {pairs[i][k].id : i \in 1..Len(pairs)}

\* C9 as stated: an input whose identity is the swapped side of some swap pair
\* is resolved by the swapped resolver and merged into the slot of that pair's
\* original; any other input is resolved by the plain-input resolver and
\* inserted under its own identity.
C9_Original ==
    [][pc[1] = "inputs" =>
        LET handle == plan.handles_inputs[pc[2]]
            desc == plan.inputs[pc[2]]
            ov == tensor(plan.overrides, desc.id)
            pairs == {i \in 1..Len(plan.swapped) : plan.swapped[i][1].id = desc.id}
        IN IF pairs # {}
           THEN \E i \in pairs :
                  LET q == plan.swapped[i] IN
                  vectorizations' = multi_reads_vectorization_update(vectorizations, q[2].id,
                      vectorization_swapped(handle, q[1], q[2], q[3], q[4], plan.max, plan.axis, plan.native, ov))
           ELSE vectorizations' = MapInsert(vectorizations, desc.id,
                      vectorization_input(handle, desc, plan.axis, plan.native, ov))
      ]_vars

\* C9 amended: an input whose identity is the original side of some swap pair
\* is resolved by the swapped resolver with the first such pair and merged into
\* the slot of that pair's original, which is the input's own identity; any
\* other input is resolved by the plain-input resolver and inserted under its
\* own identity without merging.
C9_InputRouting ==
    [][pc[1] = "inputs" =>
        LET handle == plan.handles_inputs[pc[2]]
            desc == plan.inputs[pc[2]]
            ov == tensor(plan.overrides, desc.id)
            pairs == {i \in 1..Len(plan.swapped) : plan.swapped[i][2].id = desc.id}
        IN IF pairs # {}
           THEN \E i \in pairs :
                  LET q == plan.swapped[i] IN
                  /\ \A j \in pairs : i <= j
                  /\ q[2].id = desc.id
                  /\ vectorizations' = multi_reads_vectorization_update(vectorizations, q[2].id,
                         vectorization_swapped(handle, q[1], q[2], q[3], q[4], plan.max, plan.axis, plan.native, ov))
           ELSE vectorizations' = MapInsert(vectorizations, desc.id,
                      vectorization_input(handle, desc, plan.axis, plan.native, ov))
      ]_vars

\* Inputs 1 then 0 with the swap pair (swapped 0, original 1): input 1 went
\* through the swapped resolver into its own slot, input 0 through the
\* plain-input resolver.
C9_Witness ==
    /\ pc[1] = "done"
    /\ plan.inputs = <<TensorIr(1), TensorIr(0)>>
    /\ plan.swapped = <<<<TensorIr(0), TensorIr(1), FALSE, <<0, 1>>>>>>
    /\ plan.reshaped = <<>> /\ plan.outputs = <<>>
    /\ plan.axis = None /\ plan.max = 4 /\ plan.overrides.state = None
    /\ vectorizations = (0 :> Aligned(4) @@ 1 :> Aligned(2))

\* Every identity that takes part in the plan.
Participants ==
    IdsOf(plan.inputs) \cup IdsOf(plan.outputs)
        \cup SideIds(plan.reshaped, 1) \cup SideIds(plan.reshaped, 2)
        \cup SideIds(plan.swapped, 1) \cup SideIds(plan.swapped, 2)

\* The identities the pass records: the bound inputs, the originals of the
\* reshape pairs and the outputs.
Recorded ==
    {Zip(plan.handles_inputs, plan.inputs)[i][2].id :
        i \in 1..Len(Zip(plan.handles_inputs, plan.inputs))}
        \cup SideIds(plan.reshaped, 2) \cup IdsOf(plan.outputs)

\* C10 as stated: after the pass, on an initially empty mapping, the mapping
\* holds a decision for exactly the identities taking part: every bound input,
\* every output, and both sides of every reshape pair and every swap pair.
C10_Original ==
    pc[1] = "done" =>
        /\ DOMAIN vectorizations = Participants
        /\ \A id \in DOMAIN vectorizations : vectorizations[id] \in Vects

\* C10 amended: after the pass, on an initially empty mapping, the mapping
\* holds exactly one decision for every bound input, every output and the
\* original of every reshape pair, and for no other identity.
C10_RecordedIds ==
    pc[1] = "done" =>
        /\ DOMAIN vectorizations = Recorded
        /\ \A id \in DOMAIN vectorizations : vectorizations[id] \in Vects

\* A finished pass over input 1, the reshape pair (view 2, original 0) and one
\* swap pair: the view 2 has no decision.
C10_Witness ==
    /\ pc[1] = "done"
    /\ plan.inputs = <<TensorIr(1)>>
    /\ Len(plan.reshaped) = 1
    /\ plan.reshaped[1][1].id = 2 /\ plan.reshaped[1][2].id = 0
    /\ Len(plan.swapped) = 1
    /\ plan.outputs = <<>>
    /\ DOMAIN vectorizations = {0, 1}

\* The bound inputs resolved by the plain-input resolver.
PlainInputs ==
    {plan.inputs[i].id : i \in {k \in 1..Len(plan.inputs) :
                                    FindSwapped(plan.swapped, plan.inputs[k].id) = 0}}

\* C16 as stated: for max >= 1, after the pass on an initially empty mapping,
\* every decision in the mapping has a line size of at most max.
C16_Original ==
    (pc[1] = "done" /\ plan.max >= 1) =>
        \A id \in DOMAIN vectorizations : line_size(vectorizations[id]) <= plan.max

\* C16 amended: for max >= 1, after the pass on an initially empty mapping,
\* every decision in the mapping has a line size of at most max, except the
\* decisions of plain-resolved bound inputs that are neither an output nor the
\* original of a reshape pair: those come from the plain-input resolver alone,
\* which does not consult max, and are bounded by the candidate list only.
C16_MaxBound ==
    (pc[1] = "done" /\ plan.max >= 1) =>
        \A id \in DOMAIN vectorizations :
            \/ line_size(vectorizations[id]) <= plan.max
            \/ /\ id \in PlainInputs
               /\ id \notin IdsOf(plan.outputs)
               /\ id \notin SideIds(plan.reshaped, 2)
               /\ vectorizations[id] =
                     vectorization_input(CubeFusionHandle(id), TensorIr(id), plan.axis, plan.native, tensor(plan.overrides, id))

\* A finished pass with max = 2 in which the plain input 0 holds Aligned(4)
\* and the reshape original and output 2 holds Aligned(2).
C16_Witness ==
    /\ pc[1] = "done"
    /\ plan.max = 2
    /\ plan.inputs = <<TensorIr(0)>>
    /\ plan.swapped = <<>>
    /\ Len(plan.reshaped) = 1 /\ plan.reshaped[1][2].id = 2
    /\ plan.outputs = <<TensorIr(2)>>
    /\ vectorizations = (0 :> Aligned(4) @@ 2 :> Aligned(2))

\* C15: running vectorization_default a second time with the same arguments
\* yields the same mapping as the first run, both when the second run starts
\* from an empty mapping and when it is applied to the mapping the first run
\* produced.
C15_Idempotent ==
    Called("rerun") => vectorizations = result[1]

\* A second run on the kept mapping of a first run that merged a swapped
\* proposal and a reshape proposal into identity 0 and inserted output 2.
C15_Witness ==
    /\ Called("rerun") /\ call.keep
    /\ plan.inputs = <<TensorIr(0), TensorIr(1)>>
    /\ Len(plan.swapped) = 1 /\ plan.swapped[1][2].id = 0
    /\ Len(plan.reshaped) = 1 /\ plan.reshaped[1][2].id = 0
    /\ plan.outputs = <<TensorIr(2)>>
    /\ DOMAIN vectorizations = {0, 1, 2}

----------------------------------------------------------------------------
(* Properties of the override table (SpecOverrides) *)

\* The positions in the history of the overrides calls for identity id.
OverridesOf(id) ==
    {i \in 1..Len(calls) : calls[i][1] = "overrides" /\ calls[i][2] = id}

\* The positions in the history of the overrides_default calls.
DefaultsSet == {i \in 1..Len(calls) : calls[i][1] = "overrides_default"}

\* C13: after any sequence of overrides(id, list) and overrides_default(list)
\* calls on an initially empty table, tensor(id) returns the list of the most
\* recent overrides call for that id if there was one; otherwise the list of
\* the most recent overrides_default call if there was one; otherwise None.
C13_Lookup ==
    \A id \in TensorIds :
        tensor(table, id) =
            IF OverridesOf(id) # {} THEN Some(calls[Max(OverridesOf(id))][3])
            ELSE IF DefaultsSet # {} THEN Some(calls[Max(DefaultsSet)][2])
            ELSE None

\* After overrides(0, [4]), overrides(0, [2]) and overrides_default([4]):
\* identity 0 looks up [2] and identity 1 the default [4].
C13_Witness ==
    /\ calls = << <<"overrides", 0, <<4>>>>, <<"overrides", 0, <<2>>>>,
                  <<"overrides_default", <<4>>>> >>
    /\ tensor(table, 0) = Some(<<2>>)
    /\ tensor(table, 1) = Some(<<4>>)

\* The identities with a per-identity entry in the table.
EntryIds == IF table.state = None THEN {} ELSE DOMAIN table.state[1]

====
